---- MODULE Spec2Model ----
(***************************************************************************)
(* RFItoLingq: scrape "Journal en francais facile" episodes and upload     *)
(* them to LingQ.  One state machine per component:                        *)
(*   SpecListing - RFIScraper.fetch_listing (src/src/scraper.py)           *)
(*   SpecIndex   - LingQAPI.get_collection_lessons (src/src/lingq_api.py)  *)
(*   SpecScrape  - cmd_scrape / RFIScraper.process_episode                 *)
(*   SpecUpload  - cmd_upload / upload_single_episode (src/main.py)        *)
(* The remote servers are the environment: every response they can give    *)
(* is a nondeterministic choice of the action that issues the request.     *)
(***************************************************************************)
EXTENDS Integers, Sequences, FiniteSets, TLC

\* ---------------------------------------------------------------- bounds
NumUrls == 3      \* distinct episode URLs the source site can list
MaxAnchors == 2   \* matching <a> elements on one listing page

\* --pages default (src/main.py); fetch_listing is explored for 0..DefaultPages.
DefaultPages == 3
MaxLimit == 2     \* largest --limit argument

\* Python's None for an Optional[int] / Optional[datetime] argument.
None == -1

\* ------------------------------------------------------------------ state
VARIABLES
    lpc,        \* fetch_listing: "idle" | "loop" | "sort" | "done"
    limit,      \* argument limit
    since,      \* argument since
    pages,      \* argument pages
    page,       \* loop variable of `for page in range(max(1, pages))`
    collected,  \* dict url -> date, insertion ordered
    episodes,   \* the returned list
    listLog     \* the listing requests the site received, with its answers

listingVars == <<lpc, limit, since, pages, page, collected, episodes, listLog>>

VARIABLES
    gpc,        \* get_collection_lessons: "idle" | "loop" | "done"
    idxPage,    \* local `page`
    mapping,    \* local `mapping`, title -> id
    indexLog    \* the lesson-list requests the platform received and answered

indexVars == <<gpc, idxPage, mapping, indexLog>>

VARIABLES
    fs,         \* the data directory: folder -> its state
    spc,        \* cmd_scrape / process_episode position
    pending,    \* the items of `episodes` the for loop has not taken yet
    cur,        \* episode_url of the running process_episode, 0 outside
    media,      \* (mp3_url, transcript, image_url) of the current episode
    downloads   \* media GET requests issued by the running process_episode

scrapeVars == <<spc, pending, cur, media, downloads>>

VARIABLES
    upc,          \* cmd_upload position: "idle" | "loop" | "done"
    targets,      \* the items of `targets` the for loop has not taken yet
    existing,     \* the title -> id mapping fetched before the loop
    success_count,\* cmd_upload's success_count
    total,        \* len(targets), the denominator of the summary line
    creates,      \* date -> create-lesson requests the platform received for
                  \* the title of that date
    lastCall      \* the last upload_single_episode call: folder, outcome of
                  \* each request it could issue, requests issued, result

uploadVars == <<upc, targets, existing, success_count, total, creates, lastCall>>

vars == <<listingVars, indexVars, fs, scrapeVars, uploadVars>>

\* What the actions of one component leave alone.
notListing == <<indexVars, fs, scrapeVars, uploadVars>>

notIndex == <<listingVars, fs, scrapeVars, uploadVars>>

notScrape == <<listingVars, indexVars, uploadVars>>

notUpload == <<listingVars, indexVars, fs, scrapeVars>>

\* ------------------------------------------------------------- utilities
Range(s) == {s[i] : i \in 1..Len(s)}

Min(a, b) == IF a <= b THEN a ELSE b

Max(a, b) == IF a >= b THEN a ELSE b

SeqsUpTo(S, n) == UNION {[1..k -> S] : k \in 0..n}

\* ================================================================ listing
\* The anchor hrefs matching LISTING_EPISODE_REGEX.  h in 1..NumUrls is the
\* site-relative href of episode page h, NumUrls + 1 is the absolute spelling
\* of episode page 1, and 0 is an href whose eight digits are not a calendar
\* date (e.g. 20241399).
Hrefs == 0..(NumUrls + 1)

\* urljoin(config.RFI_BASE_URL, href): both spellings give one absolute URL.
urljoin(h) == IF h = NumUrls + 1 THEN 1 ELSE h

\* The date embedded in the href (match.group(1)); 0 is the ValueError of
\* strptime.  Episode 1 is the oldest, episodes 2 and 3 share the next day.
HrefDate(h) == IF h = 0 THEN 0 ELSE (urljoin(h) + 2) \div 2

\* dict assignment d[key] = value on an insertion-ordered dict, kept as a
\* sequence of <<date, url>> items: an existing key keeps its position.
DictSet(d, url, date) ==
    IF \E i \in 1..Len(d) : d[i][2] = url
    THEN [i \in 1..Len(d) |-> IF d[i][2] = url THEN <<date, url>> ELSE d[i]]
    ELSE Append(d, <<date, url>>)

RECURSIVE InsertDesc(_, _)
\* Insert item e into the date-descending sequence s after every item whose
\* date is >= e's (stable).
InsertDesc(s, e) ==
    IF s = <<>> THEN <<e>>
    ELSE IF Head(s)[1] >= e[1] THEN <<Head(s)>> \o InsertDesc(Tail(s), e)
    ELSE <<e>> \o s

RECURSIVE SortedDesc(_)
\* sorted(items, key=lambda t: t[0], reverse=True): stable, newest first.
SortedDesc(s) ==
    IF s = <<>> THEN <<>>
    ELSE InsertDesc(SortedDesc(SubSeq(s, 1, Len(s) - 1)), s[Len(s)])

RECURSIVE FoundLinks(_, _)
\* The loop of find_episode_links filling `found`.
FoundLinks(anchors, found) ==
    IF anchors = <<>> THEN found
    ELSE LET h == Head(anchors)
         IN  FoundLinks(Tail(anchors),
                        IF HrefDate(h) = 0 THEN found
                        ELSE DictSet(found, urljoin(h), HrefDate(h)))

find_episode_links(anchors) == SortedDesc(FoundLinks(anchors, <<>>))

RECURSIVE CollectChunk(_, _)
\* for date, link in chunk: collected[link] = date
CollectChunk(chunk, coll) ==
    IF chunk = <<>> THEN coll
    ELSE CollectChunk(Tail(chunk), DictSet(coll, Head(chunk)[2], Head(chunk)[1]))

\* episodes[:limit] for a Python int.
SliceTo(s, n) ==
    IF n >= 0 THEN SubSeq(s, 1, Min(n, Len(s)))
    ELSE SubSeq(s, 1, Max(0, Len(s) + n))

SelectSince(s, cutoff) == SelectSeq(s, LAMBDA item : item[1] >= cutoff)

\* The tail of fetch_listing: sort, since filter, limit.
ListingResultStrictSince(coll, cutoff, n) ==
    LET sorted == SortedDesc(coll)
        kept == IF cutoff # None THEN SelectSeq(sorted, LAMBDA item : item[1] > cutoff)
                ELSE sorted
    IN  IF n # None /\ n # 0 THEN SliceTo(kept, n) ELSE kept

ListingResult(coll, cutoff, n) ==
    LET sorted == SortedDesc(coll)
        \* if since: keep item[0] >= since
        kept == IF cutoff # None THEN SelectSince(sorted, cutoff) ELSE sorted
       \* if limit: episodes[:limit]
    IN  IF n # None /\ n # 0 THEN SliceTo(kept, n) ELSE kept

ListingInit ==
    /\ lpc = "idle"
    /\ limit = None
    /\ since = None
    /\ pages = 3
    /\ page = 0
    /\ collected = <<>>
    /\ episodes = <<>>
    /\ listLog = <<>>

\* scraper.fetch_listing(limit=..., since=..., pages=...)
FetchListingCall ==
    /\ lpc = "idle"
    /\ \E l \in {None} \cup (0..MaxLimit), s \in {None} \cup (1..HrefDate(NumUrls)),
          p \in 0..DefaultPages :
          /\ limit' = l
          /\ since' = s
          /\ pages' = p
    /\ page' = 0
    /\ collected' = <<>>
    /\ lpc' = "loop"
    /\ UNCHANGED <<episodes, listLog>>
    /\ UNCHANGED notListing

\* Where the for loop goes after the body ran for `page`: `break` when stop,
\* else the next index of range(max(1, pages)).
NextPageNoEarlyStop(stop) ==
    IF page + 1 < Max(1, pages) THEN "loop" ELSE "sort"

NextPage(stop) ==
    IF stop THEN "sort"
    ELSE IF page + 1 < Max(1, pages) THEN "loop" ELSE "sort"

\* The except clause of the loop body: print the warning, `continue`.
AfterFailedPageAbort == "sort"

AfterFailedPage == NextPage(FALSE)

\* One iteration whose GET succeeds with a page holding `anchors`.
FetchPageOk ==
    /\ lpc = "loop"
    /\ \E anchors \in SeqsUpTo(Hrefs, MaxAnchors) :
          LET chunk == find_episode_links(anchors)
              after == CollectChunk(chunk, collected)
          IN  /\ collected' = after
              /\ listLog' = Append(listLog, [page |-> page, ok |-> TRUE,
                                             urls |-> {urljoin(h) : h \in {a \in Range(anchors) : HrefDate(a) # 0}}])
              /\ lpc' = NextPage(Len(after) = Len(collected))
    /\ page' = page + 1
    /\ UNCHANGED <<limit, since, pages, episodes>>
    /\ UNCHANGED notListing

\* One iteration whose GET raises requests.RequestException (network error
\* or raise_for_status): warning, continue.
FetchPageFail ==
    /\ lpc = "loop"
    /\ listLog' = Append(listLog, [page |-> page, ok |-> FALSE, urls |-> {}])
    /\ lpc' = AfterFailedPage
    /\ page' = page + 1
    /\ UNCHANGED <<limit, since, pages, collected, episodes>>
    /\ UNCHANGED notListing

\* After the loop: sort, filter, truncate, return.
FetchListingReturn ==
    /\ lpc = "sort"
    /\ episodes' = ListingResult(collected, since, limit)
    /\ lpc' = "done"
    /\ UNCHANGED <<limit, since, pages, page, collected, listLog>>
    /\ UNCHANGED notListing

ListingNext ==
    \/ FetchListingCall
    \/ FetchPageOk
    \/ FetchPageFail
    \/ FetchListingReturn

\* ========================================================== lesson index
NumTitles == 2     \* distinct episode dates, hence distinct lesson titles
MaxIndexPages == 3 \* pages of lessons the remote collection holds at most

\* Lesson titles "Journal en francais facile YYYY-MM-DD", one per date.
Titles == 1..NumTitles

\* The id the platform assigned to the lesson titled t.
ServerId(t) == 100 + t

\* The lesson objects a page can hold, <<title, key>>: the id is under "id"
\* or under "pk"; title 0 is a lesson without title, key "none" one without
\* id and pk.
Lessons ==
    (Titles \X {"id", "pk"}) \cup {<<0, "id">>, <<1, "none">>}

\* The answers to one GET of the lessons endpoint.  kind: "exc" (timeout,
\* connection error, invalid JSON), "404", "5xx" or "200"; a 200 carries a
\* payload of shape "list" (bare list), "data", "results" or "other" (a dict
\* with neither key), its lessons and its "next" indicator (dicts only).
IndexResponses ==
    {[kind |-> k, shape |-> "none", results |-> {}, next |-> FALSE] :
        k \in {"exc", "404", "5xx"}}
    \cup {[kind |-> "200", shape |-> "list", results |-> r, next |-> FALSE] :
            r \in SUBSET Lessons}
    \cup {[kind |-> "200", shape |-> "other", results |-> {}, next |-> n] :
            n \in BOOLEAN}
    \cup {[kind |-> "200", shape |-> sh, results |-> r, next |-> n] :
            sh \in {"data", "results"}, r \in SUBSET Lessons, n \in BOOLEAN}

\* _normalize_collection_list(payload)
normalize_collection_list(resp) ==
    IF resp.shape \in {"list", "data", "results"} THEN resp.results ELSE {}

\* for lesson in results: if title and pk: mapping[title] = pk
AddLessons(map, results) ==
    [t \in DOMAIN map \cup {l[1] : l \in {x \in results : x[1] # 0 /\ x[2] # "none"}} |->
        IF \E l \in results : l[1] = t /\ l[2] # "none" THEN ServerId(t) ELSE map[t]]

\* One turn of the while loop for the answer resp: the mapping afterwards
\* and whether the loop is left (break) or page += 1.
IndexTurnIgnoreNext(map, resp) ==
    IF resp.kind # "200" THEN [mapping |-> map, stop |-> TRUE]
    ELSE LET results == normalize_collection_list(resp)
         IN  IF results = {} THEN [mapping |-> map, stop |-> TRUE]
             ELSE [mapping |-> AddLessons(map, results),
                   stop |-> resp.shape = "list"]

IndexTurn(map, resp) ==
    IF resp.kind = "404" THEN [mapping |-> map, stop |-> TRUE]
    ELSE IF resp.kind # "200" THEN [mapping |-> map, stop |-> TRUE]
    ELSE LET results == normalize_collection_list(resp)
         IN  IF results = {} THEN [mapping |-> map, stop |-> TRUE]
             ELSE [mapping |-> AddLessons(map, results),
                   \* data.get("next") on a list is an AttributeError,
                   \* caught by `except Exception`: break
                   stop |-> resp.shape = "list" \/ ~resp.next]

IndexInit ==
    /\ gpc = "idle"
    /\ idxPage = 1
    /\ mapping = << >>
    /\ indexLog = <<>>

GetCollectionLessonsCall ==
    /\ gpc = "idle"
    /\ gpc' = "loop"
    /\ idxPage' = 1
    /\ mapping' = << >>
    /\ UNCHANGED indexLog
    /\ UNCHANGED notIndex

\* requests.get(url, params={"page": page, ...}) and the rest of the turn.
\* The collection is finite: page MaxIndexPages, if reached, has no "next".
GetLessonsPage ==
    /\ gpc = "loop"
    /\ \E resp \in IndexResponses :
          /\ resp.next => idxPage < MaxIndexPages
          /\ LET turn == IndexTurn(mapping, resp)
             IN  /\ mapping' = turn.mapping
                 /\ gpc' = IF turn.stop THEN "done" ELSE "loop"
                 /\ idxPage' = IF turn.stop THEN idxPage ELSE idxPage + 1
          /\ indexLog' = Append(indexLog,
                 [page |-> idxPage, kind |-> resp.kind, shape |-> resp.shape,
                  empty |-> resp.results = {}, next |-> resp.next,
                  before |-> mapping])
    /\ UNCHANGED notIndex

IndexNext ==
    \/ GetCollectionLessonsCall
    \/ GetLessonsPage

\* ========================================================= episode store
NumEpisodes == 2   \* episode URLs the scraper is run on
NumSlugs == 2      \* episode directories the data directory can hold

EpisodeUrls == 1..NumEpisodes

\* safe_slug_from_url(url): last path segment with every run of
\* non-alphanumerics collapsed to "-".  URLs 2 and 3 differ only in
\* punctuation and share a slug.
safe_slug_from_url(u) == u \div 2 + 1

\* The date of the episode whose slug is s (the slug starts with YYYYMMDD):
\* slugs 1 and 2 are two episodes of one day, slug 3 is of the next day.
SlugDate(s) == (s + 1) \div 2

\* The date fetch_listing pairs with the URL.
EpisodeDate(u) == SlugDate(safe_slug_from_url(u))

\* folder = DATA_DIR / f"{date}-{slug}", as <<date, slug>>.
Folder(date, u) == <<date, safe_slug_from_url(u)>>

Folders == {<<SlugDate(s), s>> : s \in 1..NumSlugs}

\* A folder of the data directory.  exists: the directory was made;
\* mp3 / image: "none", "partial" (an interrupted stream left the file
\* truncated) or "full"; transcript: transcript.txt exists; meta: the lines
\* of episode.txt, <<>> when the file does not exist.  A line is
\* <<key, value>> and a value is <<>> for the empty string.
NoFolder ==
    [exists |-> FALSE, mp3 |-> "none", transcript |-> FALSE, image |-> "none",
     meta |-> <<>>]

\* download_file(url, dest) on a destination in state `file`, for the
\* server's behaviour `outcome`: "ok", "http_error" (raise_for_status, before
\* the file is opened), "stream_error" (RequestException while iterating the
\* body, after the file was opened).  req: GET requests issued.
download_file_always(file, outcome) ==
    CASE outcome = "ok" -> [file |-> "full", req |-> 1, raised |-> FALSE]
      [] outcome = "http_error" -> [file |-> file, req |-> 1, raised |-> TRUE]
      [] outcome = "stream_error" -> [file |-> "partial", req |-> 1, raised |-> TRUE]

download_file(file, outcome) ==
    IF file # "none" THEN [file |-> file, req |-> 0, raised |-> FALSE]
    ELSE CASE outcome = "ok" -> [file |-> "full", req |-> 1, raised |-> FALSE]
           [] outcome = "http_error" -> [file |-> "none", req |-> 1, raised |-> TRUE]
           [] outcome = "stream_error" -> [file |-> "partial", req |-> 1, raised |-> TRUE]

DownloadOutcomes == {"ok", "http_error", "stream_error"}

\* f"{key}: {value or ''}"
MetaValue(present, v) == IF present THEN <<v>> ELSE <<>>

\* The four lines process_episode writes to episode.txt.  The text of a URL
\* is not kept, only that the value is not empty.
MetadataLinesNoImage(u, med) ==
    << <<"url", <<"episode_url">> >>,
       <<"mp3", MetaValue(med.mp3, "mp3_url")>>,
       <<"transcript", MetaValue(med.transcript, "transcript.txt")>> >>

MetadataLines(u, med) ==
    << <<"url", <<"episode_url">> >>,
       <<"mp3", MetaValue(med.mp3, "mp3_url")>>,
       <<"transcript", MetaValue(med.transcript, "transcript.txt")>>,
       <<"image", MetaValue(med.image, "image_url")>> >>

\* What extract_media can return: each of mp3_url, transcript, image_url
\* present or None.
Media == [mp3 : BOOLEAN, transcript : BOOLEAN, image : BOOLEAN]

NoMedia == [mp3 |-> FALSE, transcript |-> FALSE, image |-> FALSE]

FsInit == fs = [d \in Folders |-> NoFolder]

ScrapeInit ==
    /\ spc = "idle"
    /\ pending = <<>>
    /\ cur = 0
    /\ media = NoMedia
    /\ downloads = 0

\* The lists fetch_listing can return: no URL twice, newest first.
Listings ==
    {l \in SeqsUpTo(EpisodeUrls, NumEpisodes) :
        /\ \A i, j \in 1..Len(l) : i # j => l[i] # l[j]
        /\ \A i, j \in 1..Len(l) : i < j => EpisodeDate(l[i]) >= EpisodeDate(l[j])}

FolderOf(u) == Folder(EpisodeDate(u), u)

CurFolder == FolderOf(cur)

\* cmd_scrape up to the for loop.  The command can be run again and again;
\* a later run finds the files the earlier ones left.
CmdScrape ==
    /\ spc \in {"idle", "done", "crashed"}
    /\ \E l \in Listings : pending' = l
    /\ spc' = "next"
    /\ cur' = 0
    /\ UNCHANGED <<fs, media, downloads>>
    /\ UNCHANGED notScrape

\* The for loop is exhausted: cmd_scrape returns.
CmdScrapeReturn ==
    /\ spc = "next"
    /\ pending = <<>>
    /\ spc' = "done"
    /\ UNCHANGED <<fs, pending, cur, media, downloads>>
    /\ UNCHANGED notScrape

\* What cmd_scrape does when process_episode raises: nothing catches the
\* exception, the command ends with a traceback.
AfterEpisodeError == "crashed"

\* process_episode: folder.mkdir, then extract_media, which returns.
ExtractMediaOk ==
    /\ spc = "next"
    /\ pending # <<>>
    /\ cur' = Head(pending)
    /\ pending' = Tail(pending)
    /\ fs' = [fs EXCEPT ![FolderOf(Head(pending))].exists = TRUE]
    /\ \E m \in Media : media' = m
    /\ downloads' = 0
    /\ spc' = "audio"
    /\ UNCHANGED notScrape

\* process_episode: folder.mkdir, then extract_media, which raises (network
\* error or non-2xx on the episode page).
ExtractMediaFail ==
    /\ spc = "next"
    /\ pending # <<>>
    /\ cur' = Head(pending)
    /\ pending' = Tail(pending)
    /\ fs' = [fs EXCEPT ![FolderOf(Head(pending))].exists = TRUE]
    /\ media' = NoMedia
    /\ downloads' = 0
    /\ spc' = AfterEpisodeError
    /\ UNCHANGED notScrape

\* if not mp3_url: warn; else download_file(mp3_url, mp3_dest) - not guarded
\* by any try, so a failed download ends process_episode.
DownloadAudio ==
    /\ spc = "audio"
    /\ IF ~media.mp3
       THEN /\ spc' = "transcript"
            /\ UNCHANGED <<fs, downloads, media>>
       ELSE \E outcome \in DownloadOutcomes :
              LET r == download_file(fs[CurFolder].mp3, outcome)
              IN  /\ fs' = [fs EXCEPT ![CurFolder].mp3 = r.file]
                  /\ downloads' = IF r.raised THEN 0 ELSE downloads + r.req
                  /\ media' = IF r.raised THEN NoMedia ELSE media
                  /\ spc' = IF r.raised THEN AfterEpisodeError ELSE "transcript"
    /\ UNCHANGED <<pending, cur>>
    /\ UNCHANGED notScrape

\* if not transcript: warn; else write transcript.txt
WriteTranscript ==
    /\ spc = "transcript"
    /\ fs' = IF media.transcript THEN [fs EXCEPT ![CurFolder].transcript = TRUE]
             ELSE fs
    /\ spc' = "image"
    /\ UNCHANGED <<pending, cur, media, downloads>>
    /\ UNCHANGED notScrape

\* if image_url and download: try download_file except RequestException: warn
DownloadImage ==
    /\ spc = "image"
    /\ IF ~media.image
       THEN UNCHANGED <<fs, downloads>>
       ELSE \E outcome \in DownloadOutcomes :
              LET r == download_file(fs[CurFolder].image, outcome)
              IN  /\ fs' = [fs EXCEPT ![CurFolder].image = r.file]
                  /\ downloads' = downloads + r.req
    /\ spc' = "meta"
    /\ UNCHANGED <<pending, cur, media>>
    /\ UNCHANGED notScrape

\* metadata.write_text("\n".join(lines)); return folder.  The locals of the
\* call are gone afterwards.
WriteMetadata ==
    /\ spc = "meta"
    /\ fs' = [fs EXCEPT ![CurFolder].meta = MetadataLines(cur, media)]
    /\ spc' = "next"
    /\ cur' = 0
    /\ media' = NoMedia
    /\ downloads' = 0
    /\ UNCHANGED pending
    /\ UNCHANGED notScrape

ScrapeNext ==
    \/ CmdScrape
    \/ CmdScrapeReturn
    \/ ExtractMediaOk
    \/ ExtractMediaFail
    \/ DownloadAudio
    \/ WriteTranscript
    \/ DownloadImage
    \/ WriteMetadata

\* ================================================================ upload
\* The folders as the upload command finds them: what scrape runs leave
\* behind.  A complete audio file, transcript.txt and image.jpg are only
\* written by a process_episode call that goes on to write episode.txt; the
\* episode.txt shown is the one of a latest run that extracted nothing, older
\* files staying in place.  The upload only tests which files exist, so
\* truncated media files and other metadata values add no behaviour.
StoredFolders ==
    {f \in [exists : BOOLEAN, mp3 : {"none", "full"}, transcript : BOOLEAN,
            image : {"none", "full"}, meta : {<<>>, MetadataLines(1, NoMedia)}] :
        /\ f.meta # <<>> => f.exists
        /\ (f.mp3 # "none" \/ f.transcript \/ f.image # "none") => f.meta # <<>>}

FolderDates == {d[1] : d \in Folders}

\* title = f"Journal en francais facile {episode_dir.name[:10]}", as the date.
TitleOf(d) == d[1]

RECURSIVE SortedFolders(_)
\* sorted(paths): by name, i.e. by date then slug.
SortedFolders(S) ==
    IF S = {} THEN <<>>
    ELSE LET first == CHOOSE d \in S : \A e \in S : d[2] <= e[2]
         IN  <<first>> \o SortedFolders(S \ {first})

\* find_episodes(data_dir): the folders holding transcript.txt and episode.txt.
find_episodes(store) ==
    SortedFolders({d \in Folders :
        store[d].exists /\ store[d].transcript /\ store[d].meta # <<>>})

\* How the platform answers the requests of one upload_single_episode.
\* create: lesson with id | 2xx without id | error (HTTP status or network);
\* patch: ok | any failure; genaudio: ok | 409 | other HTTP error status |
\* timeout or connection failure.
UploadOutcomes ==
    [create : {"ok", "ok_noid", "fail"}, patch : {"ok", "fail"},
     genaudio : {"ok", "409", "http_error", "conn_error"}]

NoOutcome == [create |-> "ok", patch |-> "ok", genaudio |-> "ok"]

\* upload_single_episode(api, episode_dir, existing_lessons) for folder d in
\* state f: the value returned and the requests issued, in order.
upload_single_episode_no_dedup(d, f, known, out) ==
    IF ~f.transcript THEN [ret |-> FALSE, reqs |-> <<>>]
    ELSE LET mp3_file == f.mp3 # "none"
             create == <<"create">>
         IN  IF out.create = "fail" THEN [ret |-> FALSE, reqs |-> create]
             ELSE IF out.create = "ok_noid" THEN [ret |-> TRUE, reqs |-> create]
             ELSE IF ~mp3_file THEN [ret |-> TRUE, reqs |-> create \o <<"patch">>]
             ELSE [ret |-> out.genaudio # "conn_error",
                   reqs |-> create \o <<"patch", "genaudio">>]

upload_single_episode(d, f, known, out) ==
    IF ~f.transcript THEN [ret |-> FALSE, reqs |-> <<>>]
    ELSE IF TitleOf(d) \in DOMAIN known THEN [ret |-> TRUE, reqs |-> <<>>]
    ELSE LET mp3_file == f.mp3 # "none"
             create == <<"create">>
         IN  \* api.create_lesson raises: except Exception -> False
             IF out.create = "fail" THEN [ret |-> FALSE, reqs |-> create]
             \* lesson.get("id") is falsy: no post-processing
             ELSE IF out.create = "ok_noid" THEN [ret |-> TRUE, reqs |-> create]
             \* update_lesson_metadata catches every Exception itself
             ELSE IF ~mp3_file THEN [ret |-> TRUE, reqs |-> create \o <<"patch">>]
             \* generate_audio_timestamps catches requests.HTTPError only: a
             \* timeout or connection error reaches `except Exception` here
             ELSE [ret |-> out.genaudio # "conn_error",
                   reqs |-> create \o <<"patch", "genaudio">>]

\* The mappings get_collection_lessons can return.
Mappings == UNION {[T -> {ServerId(t) : t \in Titles}] : T \in SUBSET Titles}

KnownMappings == {m \in Mappings : \A t \in DOMAIN m : m[t] = ServerId(t)}

NoCall == [dir |-> <<0, 0>>, out |-> NoOutcome, reqs |-> <<>>, ret |-> FALSE]

UploadInit ==
    /\ upc = "idle"
    /\ targets = <<>>
    /\ existing = << >>
    /\ success_count = 0
    /\ total = 0
    /\ creates = [t \in FolderDates |-> 0]
    /\ lastCall = NoCall

\* The state an upload starts from: some scrape runs have filled the store.
UploadStoreInit == fs \in [Folders -> StoredFolders]

\* targets = [e for e in all_episodes if e.name.startswith(args.date)]
DateFilter(eps, date) ==
    IF date = None THEN eps ELSE SelectSeq(eps, LAMBDA d : d[1] = date)

\* cmd_upload with --date given and no folder of that date: warn, return.
CmdUploadNoTargets ==
    /\ upc = "idle"
    /\ \E date \in FolderDates : DateFilter(find_episodes(fs), date) = <<>>
    /\ upc' = "done"
    /\ UNCHANGED <<targets, existing, success_count, total, creates, lastCall>>
    /\ UNCHANGED notUpload

\* cmd_upload up to the for loop: find_episodes, --date, --limit, then the
\* remote index.
CmdUpload ==
    /\ upc = "idle"
    /\ \E date \in {None} \cup FolderDates, lim \in 0..MaxLimit, known \in KnownMappings :
          LET filtered == DateFilter(find_episodes(fs), date)
              picked == IF lim # 0 THEN SliceTo(filtered, lim) ELSE filtered
          IN  /\ date # None => filtered # <<>>
              /\ targets' = picked
              /\ total' = Len(picked)
              /\ existing' = known
    /\ success_count' = 0
    /\ upc' = "loop"
    /\ UNCHANGED <<creates, lastCall>>
    /\ UNCHANGED notUpload

\* One turn of `for ep in targets`: upload_single_episode and the count.
UploadEpisode ==
    /\ upc = "loop"
    /\ targets # <<>>
    /\ \E out \in UploadOutcomes :
          LET d == Head(targets)
              r == upload_single_episode(d, fs[d], existing, out)
          IN  /\ lastCall' = [dir |-> d, out |-> out, reqs |-> r.reqs, ret |-> r.ret]
              /\ creates' = IF r.reqs # <<>>
                            THEN [creates EXCEPT ![TitleOf(d)] = @ + 1]
                            ELSE creates
              /\ success_count' = IF r.ret THEN success_count + 1 ELSE success_count
    /\ targets' = Tail(targets)
    /\ UNCHANGED <<upc, existing, total>>
    /\ UNCHANGED notUpload

\* The for loop is exhausted: the summary line is printed.
CmdUploadReturn ==
    /\ upc = "loop"
    /\ targets = <<>>
    /\ upc' = "done"
    /\ UNCHANGED <<targets, existing, success_count, total, creates, lastCall>>
    /\ UNCHANGED notUpload

\* upload_single_episode called on its own, on any folder of the data
\* directory and with any mapping (it does not rely on find_episodes).
UploadSingleCall ==
    /\ upc = "idle"
    /\ \E d \in {e \in Folders : fs[e].exists}, known \in KnownMappings,
          out \in UploadOutcomes :
          LET r == upload_single_episode(d, fs[d], known, out)
          IN  /\ lastCall' = [dir |-> d, out |-> out, reqs |-> r.reqs, ret |-> r.ret]
              /\ creates' = IF r.reqs # <<>>
                            THEN [creates EXCEPT ![TitleOf(d)] = @ + 1]
                            ELSE creates
              /\ existing' = known
              /\ success_count' = IF r.ret THEN 1 ELSE 0
    /\ total' = 1
    /\ upc' = "done"
    /\ UNCHANGED targets
    /\ UNCHANGED notUpload

UploadNext ==
    \/ CmdUploadNoTargets
    \/ CmdUpload
    \/ UploadEpisode
    \/ CmdUploadReturn
    \/ UploadSingleCall

\* ============================================================ properties
\* ----------------------------------------------------- listing properties
\* What the site served: the URLs of the pages answered successfully.
ServedUrls(upto) ==
    UNION {listLog[j].urls : j \in {k \in 1..upto : listLog[k].ok}}

UrlDate(u) == HrefDate(u)

\* The URL-deduplicated collected pairs with date >= since.
KeptPairs ==
    {<<UrlDate(u), u>> : u \in {v \in ServedUrls(Len(listLog)) :
                                   since = None \/ UrlDate(v) >= since}}

\* C6: fetch_listing returns the first `limit` (all when limit is 0 or
\* absent) of the deduplicated pairs with date >= since sorted newest first:
\* no URL twice, dates non-increasing, only kept pairs, as many as the limit
\* allows, and no kept pair left out is more recent than a returned one.
C6_ListingResult ==
    lpc = "done" =>
        /\ \A i, j \in 1..Len(episodes) : i # j => episodes[i][2] # episodes[j][2]
        /\ \A i, j \in 1..Len(episodes) : i < j => episodes[i][1] >= episodes[j][1]
        /\ Range(episodes) \subseteq KeptPairs
        /\ Len(episodes) = IF limit = None \/ limit = 0 THEN Cardinality(KeptPairs)
                           ELSE Min(limit, Cardinality(KeptPairs))
        /\ \A out \in KeptPairs \ Range(episodes) :
               \A in \in Range(episodes) : out[1] <= in[1]

\* A listing that is both filtered by since and truncated by limit.
C6_Witness ==
    /\ lpc = "done"
    /\ since = 2
    /\ limit = 1
    /\ Cardinality(KeptPairs) = 2
    /\ Cardinality(ServedUrls(Len(listLog))) = 3
    /\ Len(episodes) = 1

\* C7: a successfully fetched page that brings no URL the earlier pages had
\* not already brought is the last page requested.
C7_EarlyStop ==
    \A i \in 1..Len(listLog) :
        (listLog[i].ok /\ listLog[i].urls \subseteq ServedUrls(i - 1))
            => i = Len(listLog)

\* Page 1 only echoes page 0, pages = 3: the loop is over after two requests.
C7_Witness ==
    /\ lpc = "done"
    /\ pages = 3
    /\ Len(listLog) = 2
    /\ listLog[1].ok /\ listLog[1].urls # {}
    /\ listLog[2].ok /\ listLog[2].urls = listLog[1].urls

\* C8: after a failed page the next index (up to pages-1) is requested, the
\* requests go 0, 1, 2, ... and what the other pages brought is returned.
C8_FailedPageSkipped ==
    /\ \A i \in 1..Len(listLog) : listLog[i].page = i - 1
    /\ lpc \in {"sort", "done"} =>
           \A i \in 1..Len(listLog) :
               (~listLog[i].ok /\ listLog[i].page < pages - 1) => i < Len(listLog)
    /\ (lpc = "done" /\ (limit = None \/ limit = 0)) =>
           {e[2] : e \in Range(episodes)} = {p[2] : p \in KeptPairs}

\* Page 0 failed, page 1 answered, and its episode is in the result.
C8_Witness ==
    /\ lpc = "done"
    /\ Len(listLog) >= 2
    /\ ~listLog[1].ok
    /\ listLog[2].ok
    /\ episodes # <<>>

\* ------------------------------------------------------ index properties
\* The answers after which the claim says pagination ends.
Terminating(r) ==
    \/ r.kind \in {"exc", "5xx", "404"}
    \/ r.kind = "200" /\ r.empty
    \/ r.kind = "200" /\ ~r.next

\* C9: pages are requested as 1, 2, 3, ...; an empty page, a 404, a page
\* without "next" or a request exception is the last request, whatever the
\* envelope shape, and the call is then over; after an exception the mapping
\* returned is the one collected before it.
C9_IndexTerminates ==
    /\ \A i \in 1..Len(indexLog) : indexLog[i].page = i
    /\ \A i \in 1..Len(indexLog) :
           Terminating(indexLog[i]) => (i = Len(indexLog) /\ gpc = "done")
    /\ \A i \in 1..Len(indexLog) :
           indexLog[i].kind \in {"exc", "5xx"} => mapping = indexLog[i].before

\* Each shape ends a pagination, and an exception keeps a partial mapping.
C9_Witness ==
    /\ gpc = "done"
    /\ Len(indexLog) = 3
    /\ indexLog[1].shape = "data" /\ indexLog[2].shape = "results"
    /\ indexLog[3].kind = "exc"
    /\ DOMAIN mapping = Titles

\* ------------------------------------------------------ scrape properties
InCall == {"audio", "transcript", "image", "meta"}

\* C3: a download_file whose destination exists issues no request, leaves
\* the file as it is and returns normally - for the audio and for the image
\* of process_episode, so a run on a populated folder requests no media.
C3_DownloadIdempotent ==
    [][/\ (spc = "audio" /\ media.mp3 /\ fs[CurFolder].mp3 # "none") =>
              /\ downloads' = downloads
              /\ fs' = fs
              /\ spc' = "transcript"
       /\ (spc = "image" /\ media.image /\ fs[CurFolder].image # "none") =>
              /\ downloads' = downloads
              /\ fs' = fs
              /\ spc' = "meta"]_vars

\* A re-run that found the audio and the image in place reaches the end of
\* process_episode without a single media request.
C3_Witness ==
    /\ spc = "meta"
    /\ media.mp3 /\ media.image
    /\ fs[CurFolder].mp3 # "none" /\ fs[CurFolder].image # "none"
    /\ fs[CurFolder].meta # <<>>
    /\ downloads = 0

\* The folder of the process_episode call a step belongs to.
StepFolder == FolderOf(IF spc = "next" THEN Head(pending) ELSE cur)

\* The episode.txt the claim describes for the extraction `med`.
FourLines(meta, med) ==
    /\ Len(meta) = 4
    /\ <<meta[1][1], meta[2][1], meta[3][1], meta[4][1]>>
           = <<"url", "mp3", "transcript", "image">>
    /\ meta[1][2] # <<>>
    /\ (meta[2][2] = <<>>) <=> ~med.mp3
    /\ (meta[3][2] = <<>>) <=> ~med.transcript
    /\ (meta[4][2] = <<>>) <=> ~med.image

C5_BatchContinues ==
    spc \in {"done", "crashed"} => pending = <<>>

\* The value of the `transcript:` line of a folder's episode.txt is not empty.
TranscriptRecorded(d) ==
    fs[d].meta # <<>> /\ fs[d].meta[3][2] # <<>>

\* C11: between process_episode calls, whatever runs came before, a folder
\* holds transcript.txt iff the transcript value of its episode.txt is not
\* empty; so after a latest run that extracted no transcript there is no
\* transcript.txt and the folder is not eligible for upload.
C11_TranscriptIffRecorded ==
    spc \notin InCall =>
        \A d \in Folders : fs[d].transcript <=> TranscriptRecorded(d)

\* C13: a file exists at a download destination only if it holds the whole
\* response body: no failed download_file call leaves a truncated mp3 or
\* image behind for a later call to skip.
C13_NoPartialFile ==
    \A d \in Folders : fs[d].mp3 # "partial" /\ fs[d].image # "partial"


\* ------------------------------------------------------ upload properties
\* C1: in one upload pass the platform receives at most one create-lesson
\* request per title, also when two folders share their date.
C1_OneCreatePerTitle ==
    \A t \in FolderDates : creates[t] <= 1

\* The last upload_single_episode call was made on a folder that ...
Called == lastCall.dir \in Folders

\* C2: a folder with transcript.txt whose title is a key of the mapping
\* passed in: the call returns True and issued no request at all.
C2_SkipKnownTitle ==
    (/\ Called
     /\ fs[lastCall.dir].transcript
     /\ TitleOf(lastCall.dir) \in DOMAIN existing)
        => (lastCall.ret /\ lastCall.reqs = <<>>)

\* Inside an upload pass, a folder complete with audio and image was skipped
\* on its title and counted.
C2_Witness ==
    /\ upc = "loop"
    /\ Called
    /\ fs[lastCall.dir].transcript
    /\ fs[lastCall.dir].mp3 = "full" /\ fs[lastCall.dir].image = "full"
    /\ TitleOf(lastCall.dir) \in DOMAIN existing
    /\ lastCall.ret
    /\ success_count = 1
    /\ creates[TitleOf(lastCall.dir)] = 0

\* C10: on a folder without transcript.txt the call issues no request and
\* reports success, so that the episode counts as succeeded.
C10_MissingTranscriptSucceeds ==
    (Called /\ ~fs[lastCall.dir].transcript)
        => (lastCall.reqs = <<>> /\ lastCall.ret /\ success_count = 1)

\* C12: the metadata patch and the audio-timestamp request are best-effort:
\* a call of upload_single_episode whose create request did not fail
\* returns True whatever the outcome of the two later requests.
C12_FollowUpsBestEffort ==
    (Called /\ lastCall.reqs # <<>> /\ lastCall.out.create # "fail")
        => lastCall.ret

\* ======================================================== specifications
Init == ListingInit /\ IndexInit /\ FsInit /\ ScrapeInit /\ UploadInit

SpecListing == Init /\ [][ListingNext]_vars

SpecIndex == Init /\ [][IndexNext]_vars

SpecScrape == Init /\ [][ScrapeNext]_vars

UploadStart ==
    ListingInit /\ IndexInit /\ UploadStoreInit /\ ScrapeInit /\ UploadInit

SpecUpload == UploadStart /\ [][UploadNext]_vars

====
